---- MODULE Spec2Model ----
(***************************************************************************)
(* Customer-directory service (src/main.py): the search, seed, diagnostic  *)
(* and hello handlers over the "customer" collection of a document store.  *)
(* Strings are sequences of one-character strings, so that substring and   *)
(* pattern matching are computed character by character.                   *)
(***************************************************************************)
EXTENDS Integers, Sequences, FiniteSets, TLC

(* ------------------------------ values -------------------------------- *)

\* A string value, the null value (Python None) and a store identifier.
Str(s) == [t |-> "str", s |-> s]
Null == [t |-> "null"]
Oid(n) == [t |-> "oid", n |-> n]

IsStr(v) == v.t = "str"

\* dict.get(key): the stored value, None when the key is missing.
Get(doc, key) == IF key \in DOMAIN doc THEN doc[key] ELSE Null

\* dict.get(key, default): the default only when the key is missing.
GetDefault(doc, key, default) == IF key \in DOMAIN doc THEN doc[key] ELSE default

\* Python truthiness of a value read from a document.
Truthy(v) == CASE v.t = "null" -> FALSE
               [] v.t = "str" -> Len(v.s) > 0
               [] OTHER -> TRUE

Min(a, b) == IF a < b THEN a ELSE b

\* Python slice seq[:n].
Take(seq, n) == SubSeq(seq, 1, Min(Len(seq), n))

UpperCase == <<"A", "B", "C", "D", "E", "F", "G", "H", "I", "J", "K", "L", "M",
               "N", "O", "P", "Q", "R", "S", "T", "U", "V", "W", "X", "Y", "Z">>
LowerCase == <<"a", "b", "c", "d", "e", "f", "g", "h", "i", "j", "k", "l", "m",
               "n", "o", "p", "q", "r", "s", "t", "u", "v", "w", "x", "y", "z">>

\* Case folding of one character (the "i" option of the pattern match).
LowerOf == [k \in 1..Len(UpperCase) |-> LowerCase[k]]
UpperSet == {UpperCase[k] : k \in 1..Len(UpperCase)}
UpperIndex == [c \in UpperSet |-> CHOOSE k \in 1..Len(UpperCase) : UpperCase[k] = c]
Lower(c) == IF c \in UpperSet THEN LowerOf[UpperIndex[c]] ELSE c

HexDigits == <<"0", "1", "2", "3", "4", "5", "6", "7",
               "8", "9", "a", "b", "c", "d", "e", "f">>

\* str(ObjectId): the hexadecimal rendering of the identifier (two digits
\* here; the store's identifiers render to twenty-four).
OidStr(n) == <<HexDigits[((n \div 16) % 16) + 1], HexDigits[(n % 16) + 1]>>

(* --------------------------- program constants ------------------------ *)

MinQLen == 3
MinLimit == 1
MaxLimit == 100
DefaultLimit == 25
ErrCut == 50
ListCut == 10

SearchFields == <<"first_name", "last_name", "phone", "address", "postcode", "email">>

\* The hardcoded sample customers of seed_customers.
Sample1 ==
    [ first_name |-> Str(<<"A", "l", "i", "c", "e">>),
      last_name |-> Str(<<"J", "o", "h", "n", "s", "o", "n">>),
      phone |-> Str(<<"5", "5", "5", "-", "1", "2", "3", "-", "4", "5", "6", "7">>),
      address |-> Str(<<"1", "2", " ", "R", "a", "i", "n", "b", "o", "w", " ", "R", "d">>),
      postcode |-> Str(<<"A", "B", "1", "2", " ", "3", "C", "D">>),
      email |-> Str(<<"a", "l", "i", "c", "e", "@", "e", "x", "a", "m", "p", "l", "e", ".", "c", "o", "m">>) ]

Sample2 ==
    [ first_name |-> Str(<<"B", "o", "b">>),
      last_name |-> Str(<<"S", "m", "i", "t", "h">>),
      phone |-> Str(<<"5", "5", "5", "-", "9", "8", "7", "-", "1", "1", "1", "1">>),
      address |-> Str(<<"7", " ", "S", "u", "n", "s", "e", "t", " ", "B", "l", "v", "d">>),
      postcode |-> Str(<<"X", "Y", "9", "8", " ", "7", "Z", "T">>),
      email |-> Str(<<"b", "o", "b", "@", "e", "x", "a", "m", "p", "l", "e", ".", "c", "o", "m">>) ]

Sample3 ==
    [ first_name |-> Str(<<"C", "h", "a", "r", "l", "i", "e">>),
      last_name |-> Str(<<"N", "g", "u", "y", "e", "n">>),
      phone |-> Str(<<"+", "4", "4", " ", "7", "7", "0", "0", " ", "9", "0", "0", "1", "2", "3">>),
      address |-> Str(<<"9", "9", " ", "M", "a", "r", "k", "e", "t", " ", "S", "t", "r", "e", "e", "t">>),
      postcode |-> Str(<<"M", "1", " ", "2", "A", "B">>),
      email |-> Str(<<"c", "h", "a", "r", "l", "i", "e", "@", "e", "x", "a", "m", "p", "l", "e", ".", "c", "o", "m">>) ]

Sample4 ==
    [ first_name |-> Str(<<"D", "i", "a", "n", "a">>),
      last_name |-> Str(<<"L", "o", "p", "e", "z">>),
      phone |-> Str(<<"0", "2", "0", " ", "7", "9", "4", "6", " ", "0", "9", "5", "8">>),
      address |-> Str(<<"2", "2", "1", "B", " ", "B", "a", "k", "e", "r", " ", "S", "t", "r", "e", "e", "t">>),
      postcode |-> Str(<<"N", "W", "1", " ", "6", "X", "E">>),
      email |-> Str(<<"d", "i", "a", "n", "a", "@", "e", "x", "a", "m", "p", "l", "e", ".", "c", "o", "m">>) ]

Sample5 ==
    [ first_name |-> Str(<<"E", "t", "h", "a", "n">>),
      last_name |-> Str(<<"P", "a", "t", "e", "l">>),
      phone |-> Str(<<"0", "7", "9", "1", "1", " ", "1", "2", "3", "4", "5", "6">>),
      address |-> Str(<<"5", " ", "K", "i", "n", "g", "s", " ", "W", "a", "y">>),
      postcode |-> Str(<<"S", "W", "1", "A", " ", "1", "A", "A">>),
      email |-> Str(<<"e", "t", "h", "a", "n", "@", "e", "x", "a", "m", "p", "l", "e", ".", "c", "o", "m">>) ]

samples == <<Sample1, Sample2, Sample3, Sample4, Sample5>>

\* Documents that reach the collection through the external insertion path:
\* one with few fields, one without names, one whose first name is null.
ExtRob ==
    [ first_name |-> Str(<<"R", "o", "b">>),
      last_name |-> Str(<<"S", "m", "i", "t", "h", "e">>),
      address |-> Str(<<"4", "+", " ", "7", " ", "M", "i", "l", "l">>),
      email |-> Str(<<"b", "o", "b", "@", "e", "x", "a", "m", "p", "l", "e", ".", "c", "o", "m">>) ]
ExtNoName ==
    [ phone |-> Str(<<"5", "5", "5", "-", "0", "0", "0">>), email |-> Null ]
ExtNullName ==
    [ first_name |-> Null,
      last_name |-> Str(<<"S", "m", "i", "t", "h">>),
      email |-> Str(<<"n", "@", "x", ".", "i", "o">>) ]

\* Every document body the collection can hold.  Stored documents are never
\* updated, so the collection keeps, per document, its identifier and the
\* index of its body in this catalogue.
Catalog == samples \o <<ExtRob, ExtNoName, ExtNullName>>

BodyIndex(s) == CHOOSE k \in 1..Len(Catalog) : Catalog[k] = s

\* The document as read back from the store.
Stored(e) == ("_id" :> Oid(e.id)) @@ Catalog[e.body]

\* Request inputs.
Queries ==
    { <<"S", "m", "i", "t", "h">>, <<"s", "m", "i">>, <<"e", "x", "a">>, <<"z", "z", "z">>,
      <<"b", ".", "b">>, <<"+", "4", "4">>, <<"4", "+", " ", "7">>,
      <<"S", "m">>, <<"a">>, <<>> }
Limits == {0, MinLimit, 2, DefaultLimit, MaxLimit, MaxLimit + 1}


(* ------------------ the store's pattern match ($regex) ---------------- *)

\* The request's q is handed to the store as a regular expression with the
\* case-insensitive option.  Modelled: literal characters, "." (any
\* character) and the quantifier "+" (one or more of the preceding atom).
\* The patterns used here hold no other metacharacter and no stacked "+".

\* A pattern compiles unless a quantifier has nothing to repeat.
RegexValid(p) == ~(Len(p) >= 1 /\ p[1] = "+")

CharMatch(c, x) == c = "." \/ Lower(c) = Lower(x)

RECURSIVE MatchAt(_, _, _, _)
\* p from its i-th atom on matches s from position j on.
MatchAt(p, i, s, j) ==
    IF i > Len(p) THEN TRUE
    ELSE IF i + 1 <= Len(p) /\ p[i + 1] = "+"
         THEN \E k \in 1..(Len(s) - j + 1) :
                  /\ \A m \in j..(j + k - 1) : CharMatch(p[i], s[m])
                  /\ MatchAt(p, i + 2, s, j + k)
         ELSE /\ j <= Len(s)
              /\ CharMatch(p[i], s[j])
              /\ MatchAt(p, i + 1, s, j + 1)

\* Unanchored search of p in s.
RegexSearch(p, s) == \E j \in 1..(Len(s) + 1) : MatchAt(p, 1, s, j)

\* {field: {"$regex": q, "$options": "i"}}: only a string value matches.
FieldMatches(doc, field, q) ==
    /\ field \in DOMAIN doc
    /\ IsStr(doc[field])
    /\ RegexSearch(q, doc[field].s)

\* The "$or" filter over the six searchable fields.
FilterMatches(doc, q) ==
    \E k \in 1..Len(SearchFields) : FieldMatches(doc, SearchFields[k], q)

\* FilterMatches tabulated over the catalogue for the request patterns (a
\* stored body never changes, so neither does the filter's verdict on it).
FilterTable ==
    [q \in Queries |-> {k \in 1..Len(Catalog) : RegexValid(q) /\ FilterMatches(Catalog[k], q)}]

StoredMatches(e, q) ==
    IF q \in DOMAIN FilterTable THEN e.body \in FilterTable[q]
    ELSE FilterMatches(Catalog[e.body], q)

(* --------------------------- store operations ------------------------- *)

RECURSIVE SelectDocs(_, _)
\* The entries of c that match q, in storage order.
SelectDocs(c, q) ==
    IF c = <<>> THEN <<>>
    ELSE IF StoredMatches(Head(c), q)
         THEN <<Head(c)>> \o SelectDocs(Tail(c), q)
         ELSE SelectDocs(Tail(c), q)

\* db["customer"].find(filter_query).limit(limit)
Find(c, q, limit) == Take(SelectDocs(c, q), limit)

EmailOf(e) == Get(Catalog[e.body], "email")

NoDoc == [t |-> "none"]

\* A faulty variant of FindOne: the lookup never finds a document.
FindOneNever(c, email) == NoDoc

\* db["customer"].find_one({"email": email}): the first document whose email
\* equals the given one, None when there is none.
FindOne(c, email) ==
    IF \E k \in 1..Len(c) : EmailOf(c[k]) = email
    THEN [t |-> "doc",
          e |-> c[CHOOSE k \in 1..Len(c) :
                      /\ EmailOf(c[k]) = email
                      /\ \A m \in 1..(k - 1) : EmailOf(c[m]) # email]]
    ELSE NoDoc

RECURSIVE MaxOid(_)
MaxOid(c) == IF c = <<>> THEN 0
             ELSE IF Head(c).id > MaxOid(Tail(c)) THEN Head(c).id ELSE MaxOid(Tail(c))

\* A faulty variant of InsertOne: the identifier is taken from the record count.
InsertOneCountId(c, s) == Append(c, [id |-> Len(c), body |-> BodyIndex(s)])

\* db["customer"].insert_one(s): the store appends the document under a
\* freshly generated identifier.
InsertOne(c, s) == Append(c, [id |-> MaxOid(c) + 1, body |-> BodyIndex(s)])

\* db["customer"].count_documents({})
CountDocuments(c) == Len(c)

(* ----------------------------- serialization -------------------------- *)

\* The fields handed to the CustomerOut constructor.
CustomerFields(doc) ==
    [ id |-> IF Truthy(Get(doc, "_id")) THEN Str(OidStr(Get(doc, "_id").n)) ELSE Str(<<>>),
      first_name |-> GetDefault(doc, "first_name", Str(<<>>)),
      last_name |-> GetDefault(doc, "last_name", Str(<<>>)),
      phone |-> Get(doc, "phone"),
      address |-> Get(doc, "address"),
      postcode |-> Get(doc, "postcode"),
      email |-> Get(doc, "email") ]

\* CustomerOut's validation: id, first_name and last_name are required
\* strings, the other four are optional strings.
CustomerOutValid(f) == IsStr(f.id) /\ IsStr(f.first_name) /\ IsStr(f.last_name)

\* _serialize_customer: the customer, or the constructor's validation error.
SerializeCustomer(doc) ==
    IF CustomerOutValid(CustomerFields(doc))
    THEN [ok |-> TRUE, out |-> CustomerFields(doc)]
    ELSE [ok |-> FALSE, out |-> CustomerFields(doc)]

RECURSIVE SerializeAll(_)
\* [_serialize_customer(doc) for doc in results]
SerializeAll(docs) ==
    IF docs = <<>> THEN <<>>
    ELSE <<SerializeCustomer(Stored(Head(docs)))>> \o SerializeAll(Tail(docs))

RECURSIVE Outs(_)
\* The customers of a list of successful serializations.
Outs(sers) == IF sers = <<>> THEN <<>> ELSE <<Head(sers).out>> \o Outs(Tail(sers))

(* -------------------------------- bounds ------------------------------ *)

\* Worker threads of the hosting server, each handling one request at a time.
NWorkers == 2
\* Seed requests accepted in one run.
MaxSeeds == 2

Workers == 1..NWorkers

\* Collections the service may be started against: empty, filled through
\* the external insertion path, or holding two of the samples already.
InitColls ==
    << <<>>,
       <<[id |-> 1, body |-> BodyIndex(ExtRob)], [id |-> 2, body |-> BodyIndex(ExtNoName)]>>,
       <<[id |-> 1, body |-> BodyIndex(ExtNullName)]>>,
       <<[id |-> 1, body |-> BodyIndex(Sample5)], [id |-> 2, body |-> BodyIndex(Sample1)]>> >>

\* The store handle: "none" (db is None), "down" (a handle to a store that
\* cannot be reached) or "up".
StoreStates == {"none", "down", "up"}

ErrLens == {0, ErrCut - 1, ErrCut, ErrCut + 1}
RECURSIVE ErrText(_)
ErrText(n) == IF n = 0 THEN <<>> ELSE Append(ErrText(n - 1), "e")
EnvNames == {"DATABASE_URL", "DATABASE_NAME"}

(* -------------------------------- state ------------------------------- *)

VARIABLES
    store,      \* the handle imported from the database module
    coll,       \* the "customer" collection, in storage order
    req,        \* per worker: the position of the request it is handling
    last,       \* the response completed by the latest step, if any
    seedLog,    \* the bodies of the completed seed requests, in order
    nSeeds,     \* seed requests accepted so far
    coll0       \* which of InitColls the collection was at start

vars == <<store, coll, req, last, seedLog, nSeeds, coll0>>

\* What a seed request found at its start: the record count and the samples
\* whose email was stored (kept for the statements about its response).
NoBefore == [len |-> 0, present |-> {}]
Before(c) == [len |-> Len(c),
              present |-> {k \in 1..Len(samples) :
                              \E j \in 1..Len(c) : EmailOf(c[j]) = samples[k].email}]

Idle == [pc |-> "idle", i |-> 0, inserted |-> 0, before |-> NoBefore]

NoResp == [op |-> "none", q |-> <<>>, limit |-> 0, status |-> 0, body |-> [none |-> TRUE], ops |-> {},
           before |-> NoBefore]

Resp(op, q, limit, status, body, ops) ==
    [op |-> op, q |-> q, limit |-> limit, status |-> status, body |-> body, ops |-> ops,
     before |-> NoBefore]

\* The body of an error response.  Every body is a record (the customer list
\* of a search is its "customers" entry).
Detail(text) == [detail |-> text]

Init ==
    /\ store \in StoreStates
    /\ coll0 \in 1..Len(InitColls)
    /\ coll = InitColls[coll0]
    /\ req = [w \in Workers |-> Idle]
    /\ last = NoResp
    /\ seedLog = <<>>
    /\ nSeeds = 0

(* ------------------------------- handlers ----------------------------- *)

\* A faulty variant of QueryValid: no minimum length on q.
QueryValidNoMinLength(q, limit) == limit >= MinLimit /\ limit <= MaxLimit

\* Query(..., min_length=3) and Query(25, ge=1, le=100).
QueryValid(q, limit) == Len(q) >= MinQLen /\ limit >= MinLimit /\ limit <= MaxLimit

\* A faulty variant of DbIsNone: the availability check is missing.
DbIsNoneNever(st) == FALSE

\* "if db is None".
DbIsNone(st) == st = "none"

\* search_customers, after parameter validation.
SearchBody(st, c, q, limit) ==
    IF DbIsNone(st)
    THEN Resp("search", q, limit, 503, Detail("Database not available"), {})
    ELSE IF st = "down" \/ ~RegexValid(q)
    THEN Resp("search", q, limit, 500, Detail("Internal Server Error"), {"find"})
    ELSE LET out == SerializeAll(Find(c, q, limit))
         IN  IF \A k \in 1..Len(out) : out[k].ok
             THEN Resp("search", q, limit, 200, [customers |-> Outs(out)], {"find"})
             ELSE Resp("search", q, limit, 500, Detail("Internal Server Error"), {"find"})

\* GET /api/customers/search
SearchResponse(st, c, q, limit) ==
    IF ~QueryValid(q, limit)
    THEN Resp("search", q, limit, 422, Detail("validation error"), {})
    ELSE SearchBody(st, c, q, limit)

Search(q, limit) ==
    /\ \E w \in Workers : req[w].pc = "idle"
    /\ last' = SearchResponse(store, coll, q, limit)
    /\ UNCHANGED <<store, coll, req, seedLog, nSeeds, coll0>>

\* db.list_collection_names()
ListCollectionNames(c) == IF Len(c) > 0 THEN <<"customer">> ELSE <<>>

\* The "database" and "connection_status" entries after the try block.
DatabaseStatus(st, c, err) ==
    IF ~DbIsNone(st)
    THEN IF st = "up"
         THEN [database |-> "Connected & Working", err |-> <<>>,
               connection_status |-> "Connected",
               collections |-> Take(ListCollectionNames(c), ListCut)]
         ELSE [database |-> "Connected but Error", err |-> Take(err, ErrCut),
               connection_status |-> "Connected", collections |-> <<>>]
    ELSE [database |-> "Available but not initialized", err |-> <<>>,
          connection_status |-> "Not Connected", collections |-> <<>>]

\* GET /test
TestDatabaseResponse(st, c, env, err) ==
    LET d == DatabaseStatus(st, c, err)
    IN  Resp("test", <<>>, 0, 200,
             [ backend |-> "Running",
               database |-> d.database,
               err |-> d.err,
               database_url |-> IF "DATABASE_URL" \in env THEN "Set" ELSE "Not Set",
               database_name |-> IF "DATABASE_NAME" \in env THEN "Set" ELSE "Not Set",
               connection_status |-> d.connection_status,
               collections |-> d.collections ],
             IF DbIsNone(st) THEN {} ELSE {"list_collection_names"})

TestDatabase(env, err) ==
    /\ \E w \in Workers : req[w].pc = "idle"
    /\ last' = TestDatabaseResponse(store, coll, env, err)
    /\ UNCHANGED <<store, coll, req, seedLog, nSeeds, coll0>>

\* GET /api/hello
Hello ==
    /\ \E w \in Workers : req[w].pc = "idle"
    /\ last' = Resp("hello", <<>>, 0, 200, [message |-> "Hello from the backend API!"], {})
    /\ UNCHANGED <<store, coll, req, seedLog, nSeeds, coll0>>

\* GET /
ReadRoot ==
    /\ \E w \in Workers : req[w].pc = "idle"
    /\ last' = Resp("root", <<>>, 0, 200, [message |-> "Hello from FastAPI Backend!"], {})
    /\ UNCHANGED <<store, coll, req, seedLog, nSeeds, coll0>>

(* POST /api/customers/seed, one step per store operation *)

\* The position after sample i has been dealt with.
AfterSample(r) ==
    IF r.i < Len(samples) THEN [r EXCEPT !.pc = "find", !.i = r.i + 1]
    ELSE [r EXCEPT !.pc = "count"]

\* "if s.get('email')"
HasEmail(s) == Truthy(Get(s, "email"))

\* The store operations a completed seed request has issued.
SeedOps(r) == {"find_one", "count_documents"}
                  \cup (IF r.inserted > 0 THEN {"insert_one"} ELSE {})

\* Entry: the availability check and the loop's initialisation.
SeedStart(w) ==
    /\ req[w].pc = "idle"
    /\ nSeeds < MaxSeeds
    /\ nSeeds' = nSeeds + 1
    /\ IF DbIsNone(store)
       THEN /\ last' = Resp("seed", <<>>, 0, 503, Detail("Database not available"), {})
            /\ req' = req
       ELSE /\ last' = NoResp
            /\ req' = [req EXCEPT ![w] = [pc |-> "find", i |-> 1, inserted |-> 0, before |-> Before(coll)]]
    /\ UNCHANGED <<store, coll, seedLog, coll0>>

\* The existence check of sample i.
SeedFindOne(w) ==
    /\ req[w].pc = "find"
    /\ LET s == samples[req[w].i]
           existing == IF HasEmail(s) THEN FindOne(coll, s.email) ELSE NoDoc
       IN  IF store = "down" /\ HasEmail(s)
           THEN /\ last' = Resp("seed", <<>>, 0, 500, Detail("Internal Server Error"), {"find_one"})
                /\ req' = [req EXCEPT ![w] = Idle]
           ELSE /\ last' = NoResp
                /\ req' = [req EXCEPT ![w] =
                              IF existing = NoDoc THEN [@ EXCEPT !.pc = "insert"]
                              ELSE AfterSample(@)]
    /\ UNCHANGED <<store, coll, seedLog, nSeeds, coll0>>

\* The insertion of sample i.
SeedInsert(w) ==
    /\ req[w].pc = "insert"
    /\ coll' = InsertOne(coll, samples[req[w].i])
    /\ req' = [req EXCEPT ![w] = AfterSample([@ EXCEPT !.inserted = @ + 1])]
    /\ last' = NoResp
    /\ UNCHANGED <<store, seedLog, nSeeds, coll0>>

\* A faulty variant of SeedBody: total reports this call's insertions.
SeedBodyTotalIsInserted(r, c) == [inserted |-> r.inserted, total |-> r.inserted]

\* The response body: {"inserted": inserted, "total": count_documents({})}.
SeedBody(r, c) == [inserted |-> r.inserted, total |-> CountDocuments(c)]

SeedCount(w) ==
    /\ req[w].pc = "count"
    /\ last' = [Resp("seed", <<>>, 0, 200, SeedBody(req[w], coll), SeedOps(req[w]))
                    EXCEPT !.before = req[w].before]
    /\ seedLog' = Append(seedLog, SeedBody(req[w], coll))
    /\ req' = [req EXCEPT ![w] = Idle]
    /\ UNCHANGED <<store, coll, nSeeds, coll0>>

(* ---------------------------- specifications -------------------------- *)

AllIdle == \A v \in Workers : req[v].pc = "idle"

\* No other worker is handling a request.
Solo(w) == \A v \in Workers \ {w} : req[v].pc = "idle"

\* Requests handled one after the other: a request starts, and proceeds,
\* only while no other request is in flight.
Next ==
    \/ \E q \in Queries, limit \in Limits : AllIdle /\ Search(q, limit)
    \/ \E env \in SUBSET EnvNames, n \in ErrLens : AllIdle /\ TestDatabase(env, ErrText(n))
    \/ AllIdle /\ Hello
    \/ AllIdle /\ ReadRoot
    \/ \E w \in Workers : Solo(w) /\ SeedStart(w)
    \/ \E w \in Workers : Solo(w) /\ SeedFindOne(w)
    \/ \E w \in Workers : Solo(w) /\ SeedInsert(w)
    \/ \E w \in Workers : Solo(w) /\ SeedCount(w)

Spec == Init /\ [][Next]_vars

\* Requests handled concurrently by the server's worker threads: the store
\* operations of different requests interleave in any order.  The searches
\* and diagnostics issued between them are probes from smaller input sets.
ConcQueries == { <<"S", "m", "i", "t", "h">>, <<"b", ".", "b">> }
ConcLimits == {2, DefaultLimit}

NextConc ==
    \/ \E q \in ConcQueries, limit \in ConcLimits : Search(q, limit)
    \/ \E env \in {EnvNames} : TestDatabase(env, ErrText(ErrCut + 1))
    \/ Hello
    \/ ReadRoot
    \/ \E w \in Workers : SeedStart(w)
    \/ \E w \in Workers : SeedFindOne(w)
    \/ \E w \in Workers : SeedInsert(w)
    \/ \E w \in Workers : SeedCount(w)

SpecConc == Init /\ [][NextConc]_vars

(* ------------------------------- claims -------------------------------- *)

\* q is a case-insensitive substring of s.
ContainsCI(s, q) ==
    \E j \in 0..(Len(s) - Len(q)) : \A k \in 1..Len(q) : Lower(s[j + k]) = Lower(q[k])

\* q is a case-insensitive substring of one of the six searchable fields.
LiteralMatches(doc, q) ==
    \E k \in 1..Len(SearchFields) :
        /\ SearchFields[k] \in DOMAIN doc
        /\ IsStr(doc[SearchFields[k]])
        /\ ContainsCI(doc[SearchFields[k]].s, q)

LiteralTable == [q \in Queries |-> {k \in 1..Len(Catalog) : LiteralMatches(Catalog[k], q)}]

SearchAnswered == last.op = "search" /\ last.status = 200

SeedAnswered == last.op = "seed" /\ last.status = 200

\* C1: from an empty collection with the store available, the first of two
\* seed calls run one after the other reports {inserted: 5, total: 5}, the
\* second inserts nothing and reports the same total.
C1_SeedIdempotent ==
    (coll0 = 1 /\ store = "up") =>
        /\ Len(seedLog) >= 1 => seedLog[1] = [inserted |-> 5, total |-> 5]
        /\ Len(seedLog) >= 2 =>
               /\ seedLog[2].inserted = 0
               /\ seedLog[2].total = seedLog[1].total
               /\ Len(coll) = 5

C1_Witness ==
    coll0 = 1 /\ store = "up" /\ Len(seedLog) = 2 /\ seedLog[2].inserted = 0

\* C2: a search that returns a result returns at most limit records, each
\* holding q as a case-insensitive substring of one of its six fields.
C2_SearchSound ==
    SearchAnswered =>
        /\ Len(last.body.customers) <= last.limit
        /\ \A k \in 1..Len(last.body.customers) : LiteralMatches(last.body.customers[k], last.q)

\* C3: when the stored records holding q as a case-insensitive substring are
\* no more than limit, the result holds each of them exactly once.
C3_SearchComplete ==
    SearchAnswered =>
        LET hits == {j \in 1..Len(coll) : coll[j].body \in LiteralTable[last.q]}
        IN  Cardinality(hits) <= last.limit =>
                \A j \in hits :
                    Cardinality({k \in 1..Len(last.body.customers) :
                                    last.body.customers[k].id = Str(OidStr(coll[j].id))}) = 1

\* C4: a search with len(q) < 3 or limit outside [1, 100] ends in a
\* validation error and issues no store operation, whatever the store.
C4_SearchRejectsInvalid ==
    (last.op = "search" /\ (Len(last.q) < 3 \/ last.limit < 1 \/ last.limit > 100)) =>
        /\ last.status = 422
        /\ last.ops = {}

C4_Witness ==
    /\ last.op = "search" /\ Len(last.q) = 2 /\ last.limit = 25
    /\ last.status = 422 /\ store = "up" /\ Len(coll) > 0

\* C5: with the store handle absent, every valid search and every seed ends
\* in 503 with only a detail message, and no store operation is issued.
C5_UnavailableIs503 ==
    store = "none" =>
        /\ AllIdle
        /\ coll = InitColls[coll0]
        /\ (last.op = "search" /\ Len(last.q) >= 3 /\ last.limit >= 1 /\ last.limit <= 100) =>
               last.status = 503 /\ DOMAIN last.body = {"detail"} /\ last.ops = {}
        /\ last.op = "seed" =>
               last.status = 503 /\ DOMAIN last.body = {"detail"} /\ last.ops = {}

C5_Witness ==
    store = "none" /\ last.op = "seed" /\ last.status = 503 /\ Len(coll) > 0

\* C6: a seed call run without interleaving reports inserted = the number of
\* samples whose email was not stored at its start, and total = the record
\* count at its start plus inserted = the record count after it.
C6_SeedReport ==
    SeedAnswered =>
        /\ last.body.inserted = Len(samples) - Cardinality(last.before.present)
        /\ last.body.total = last.before.len + last.body.inserted
        /\ last.body.total = Len(coll)
        /\ last.before.len = 0 => last.body = [inserted |-> 5, total |-> 5]

C6_Witness ==
    SeedAnswered /\ last.before.len = 2 /\ last.body.inserted = 4 /\ last.body.total = 6

\* C7: every stored document a search reads is serialized, with string
\* first_name and last_name, id the string form of its identifier, and the
\* other four fields the stored value or null.
C7_SerializeTotal ==
    (last.op = "search" /\ last.status \in {200, 500} /\ store = "up" /\ RegexValid(last.q)) =>
        /\ last.status = 200
        /\ \A k \in 1..Len(last.body.customers) :
               /\ IsStr(last.body.customers[k].first_name)
               /\ IsStr(last.body.customers[k].last_name)
               /\ \E j \in 1..Len(coll) :
                      /\ last.body.customers[k].id = Str(OidStr(coll[j].id))
                      /\ \A f \in {"phone", "address", "postcode", "email"} :
                             last.body.customers[k][f] = Get(Stored(coll[j]), f)

\* C8: the diagnostic call returns normally, reports a store that cannot be
\* reached (handle absent, or listing failed) as not connected, and cuts
\* error text to 50 characters.
C8_DiagnosticNotConnected ==
    last.op = "test" =>
        /\ last.status = 200
        /\ Len(last.body.err) <= 50
        /\ store # "up" => last.body.connection_status # "Connected"

RECURSIVE SumInserted(_)
SumInserted(log) == IF log = <<>> THEN 0 ELSE Head(log).inserted + SumInserted(Tail(log))

NoTwoShareEmail(c) ==
    \A j, k \in 1..Len(c) : (j # k /\ IsStr(EmailOf(c[j]))) => EmailOf(c[j]) # EmailOf(c[k])

\* C9: from a collection in which no two records share an email, under any
\* interleaving of seed requests the collection holds at most one record per
\* sample email, and the inserted counts sum to the records added.
C9_SeedNoDuplicates ==
    NoTwoShareEmail(InitColls[coll0]) =>
        /\ \A s \in 1..Len(samples) :
               Cardinality({j \in 1..Len(coll) : EmailOf(coll[j]) = samples[s].email}) <= 1
        /\ AllIdle => SumInserted(seedLog) = Len(coll) - Len(InitColls[coll0])

\* C10: no step removes or alters a stored record: the collection only grows
\* at its end, identifiers stay unique, and search, diagnostic and hello
\* steps leave it unchanged.
C10_RecordsKept ==
    [][ /\ Len(coll') >= Len(coll)
        /\ SubSeq(coll', 1, Len(coll)) = coll
        /\ \A j, k \in 1..Len(coll') : j # k => coll'[j].id # coll'[k].id
        /\ last'.op \in {"search", "test", "hello", "root"} => coll' = coll ]_vars

C10_Witness ==
    /\ coll0 = 2 /\ Len(coll) = 6 /\ SubSeq(coll, 1, 2) = InitColls[2]
    /\ last.op = "search" /\ last.status = 200 /\ Len(last.body.customers) > 0

====
